---------------------------- MODULE Spec2Model ----------------------------
(***************************************************************************)
(* Model of libavcodec/libturing.c: the adapter between libavcodec and the *)
(* Turing HEVC encoder.  Three entry points are modelled:                  *)
(*   libturing_encode_init   builds the argument list and creates the      *)
(*                           engine instance (and the global headers),     *)
(*   libturing_encode_frame  one encode or flush call,                     *)
(*   libturing_encode_close  destroys the engine instance.                 *)
(* The engine (turing.h) and libavutil/libavcodec helpers are not part of  *)
(* the file; they appear as the outcomes the call sites distinguish.       *)
(***************************************************************************)
EXTENDS Integers, Sequences, FiniteSets, TLC

(***************************************************************************)
(* Program constants.                                                      *)
(***************************************************************************)
OPTIONS_SIZE == 1024
ARGV_SLOTS == 32
SAR_MAX == 65535
AV_CODEC_FLAG_GLOBAL_HEADER == 4194304
AV_PKT_FLAG_KEY == 1
AVERROR_INVALIDDATA == -1094995529
AVERROR_EXTERNAL == -542398533
AVERROR_ENOMEM == -12
NULL == 0

(***************************************************************************)
(* Bounds of the model.                                                    *)
(***************************************************************************)
MaxPics == 2
MaxPts == 2
MaxSize == 2
MaxIdle == 2
MaxOverrides == 24

Min(a, b) == IF a < b THEN a ELSE b

(***************************************************************************)
(* Strings.  A C string is a TLA+ string; Len and \o are those of TLC.     *)
(***************************************************************************)
RECURSIVE Rep(_, _)
Rep(c, n) ==
    IF n <= 0 THEN ""
    ELSE IF n % 2 = 0 THEN LET h == Rep(c, n \div 2) IN h \o h
    ELSE c \o Rep(c, n - 1)

Prefix(str, n) == IF n >= Len(str) THEN str ELSE SubSeq(str, 1, n)

\* printf("%d", n)
FmtD(n) == ToString(n)

RECURSIVE FracDigits(_, _, _)
\* the first k decimals of r/d (0 <= r < d), as a number and the remainder left
FracDigits(r, d, k) ==
    IF k = 0 THEN [f |-> 0, r |-> r]
    ELSE LET rest == FracDigits((r * 10) % d, d, k - 1)
             dig  == (r * 10) \div d
             pow  == CHOOSE p \in {1, 10, 100, 1000, 10000, 100000} :
                         p = 10 ^ (k - 1)
         IN  [f |-> dig * pow + rest.f, r |-> rest.r]

Pad6(f) == Rep("0", 6 - Len(ToString(f))) \o ToString(f)

\* printf("%f", (double)n / d) for n >= 0, d > 0: six decimals, rounded
FmtF(n, d) ==
    LET fd    == FracDigits(n % d, d, 6)
        up    == IF 2 * fd.r >= d THEN 1 ELSE 0
        f     == fd.f + up
        ip    == (n \div d) + (IF f = 1000000 THEN 1 ELSE 0)
        fr    == IF f = 1000000 THEN 0 ELSE f
    IN  ToString(ip) \o "." \o Pad6(fr)

(***************************************************************************)
(* The argument store of libturing_encode_init: char options[1024], the    *)
(* write position s (an offset into it), and argv[32] filled through p.    *)
(* A builder state is [s, np, strs]: strs has one entry per snprintf call, *)
(* np counts the pointers written through p.                               *)
(***************************************************************************)
Libcs == {"unbounded", "eoverflow"}

\* snprintf(s, end - s, "%s", str) at offset s.  With s > end the size
\* argument wraps to a huge size_t: the C library either formats without a
\* limit (past the end of the store) or refuses with -1 (EOVERFLOW).
snprintf(s, str, libc) ==
    LET n == OPTIONS_SIZE - s
    IN  IF n > 0
        THEN [ret  |-> Len(str),
              text |-> Prefix(str, n - 1),
              kind |-> IF Len(str) <= n - 1 THEN "whole" ELSE "truncated"]
        ELSE IF n = 0
        THEN [ret |-> Len(str), text |-> "", kind |-> "none"]
        ELSE IF libc = "unbounded"
        THEN [ret |-> Len(str), text |-> str, kind |-> "oob"]
        ELSE [ret |-> -1, text |-> "", kind |-> "none"]

EmptyBuilder == [s |-> 0, np |-> 1, strs |-> << >>]

\* *p++ = s += 1 + snprintf(s, end - s, ...)
PutArg(b, str, libc) ==
    LET w == snprintf(b.s, str, libc)
    IN  [s    |-> b.s + 1 + w.ret,
         np   |-> b.np + 1,
         strs |-> Append(b.strs, [at |-> b.s, want |-> str,
                                  text |-> w.text, kind |-> w.kind])]

RECURSIVE PutAll(_, _, _)
PutAll(b, strsToPut, libc) ==
    IF strsToPut = << >> THEN b
    ELSE PutAll(PutArg(b, Head(strsToPut), libc), Tail(strsToPut), libc)

(***************************************************************************)
(* libavutil helpers used by init.                                         *)
(***************************************************************************)
RECURSIVE av_gcd(_, _)
av_gcd(a, b) == IF b = 0 THEN a ELSE av_gcd(b, a % b)

RECURSIVE ReduceLoop(_, _, _, _, _)
\* the continued-fraction loop of av_reduce; a0, a1 are the last convergents
ReduceLoop(num, den, a0, a1, max) ==
    IF den = 0 THEN a1
    ELSE LET x   == num \div den
             nd  == num - den * x
             a2n == x * a1.num + a0.num
             a2d == x * a1.den + a0.den
         IN  IF a2n > max \/ a2d > max
             THEN LET x1 == IF a1.num # 0 THEN (max - a0.num) \div a1.num ELSE x
                      x2 == IF a1.den # 0
                            THEN Min(x1, (max - a0.den) \div a1.den) ELSE x1
                  IN  IF den * (2 * x2 * a1.den + a0.den) > num * a1.den
                      THEN [num |-> x2 * a1.num + a0.num,
                            den |-> x2 * a1.den + a0.den]
                      ELSE a1
             ELSE ReduceLoop(den, nd, a1, [num |-> a2n, den |-> a2d], max)

\* av_reduce(&dst_num, &dst_den, num, den, max) for num, den > 0
av_reduce(num, den, max) ==
    LET g == av_gcd(num, den)
        n == num \div g
        d == den \div g
    IN  IF n <= max /\ d <= max THEN [num |-> n, den |-> d]
        ELSE ReduceLoop(n, d, [num |-> 0, den |-> 1], [num |-> 1, den |-> 0], max)

\* av_pix_fmt_desc_get(pix_fmt)->comp[0].depth
PixDepth(pix_fmt) ==
    CASE pix_fmt = "yuv420p"   -> 8
      [] pix_fmt = "yuv420p10" -> 10
      [] pix_fmt = "yuv420p12" -> 12

(***************************************************************************)
(* libturing_encode_init, step by step.                                    *)
(***************************************************************************)
\* lines 61-64: the program name and the arguments that precede the check
HeadArgs(avctx) ==
    << "turing",
       "--input-res=" \o FmtD(avctx.width) \o "x" \o FmtD(avctx.height),
       "--frame-rate=" \o FmtF(avctx.tb_den, avctx.tb_num * avctx.ticks_per_frame),
       "--frames=0" >>

\* BitDepthOk letting 12-bit input through
BitDepthOk_Upto12(bit_depth) == bit_depth = 8 \/ bit_depth = 10 \/ bit_depth = 12

\* line 68
BitDepthOk(bit_depth) == bit_depth = 8 \/ bit_depth = 10

\* lines 73-74
DepthArgs(bit_depth) ==
    << "--bit-depth=" \o FmtD(bit_depth),
       "--internal-bit-depth=" \o FmtD(bit_depth) >>

\* SarPresent testing the numerator for non-negative
SarPresent_NumNonNeg(sar_num, sar_den) == sar_num >= 0 /\ sar_den > 0

\* line 77
SarPresent(sar_num, sar_den) == sar_num > 0 /\ sar_den > 0

\* lines 78-84
SarArgs(sar_num, sar_den) ==
    IF SarPresent(sar_num, sar_den)
    THEN LET r == av_reduce(sar_num, sar_den, SAR_MAX)
         IN  << "--sar=" \o FmtD(r.num) \o ":" \o FmtD(r.den) >>
    ELSE << >>

\* lines 93-100
illegal_option(key) ==
    key \in {"input-res", "frame-rate", "f", "frames", "sar", "bit-depth",
             "internal-bit-depth"}

\* line 104
OverrideArg(en) == "--" \o en.key \o "=" \o en.value

\* lines 87-91: the entries the while loop visits, in dictionary order
DictEntries(options) ==
    IF options.set /\ options.parsed THEN options.dict ELSE << >>

IsIllegal(en) == illegal_option(en.key)
IsLegal(en) == ~illegal_option(en.key)

\* lines 101-102: the entries av_log warns about
Warnings(options) == SelectSeq(DictEntries(options), IsIllegal)

\* lines 103-104: the entries that become arguments
Accepted(options) == SelectSeq(DictEntries(options), IsLegal)

OverrideArgs(options) ==
    LET a == Accepted(options) IN [i \in 1..Len(a) |-> OverrideArg(a[i])]

\* line 110
SENTINEL == "dummy-input-filename"

\* lines 61-110: the strings formatted, in order
ArgList(avctx, options) ==
    HeadArgs(avctx) \o DepthArgs(PixDepth(avctx.pix_fmt))
      \o SarArgs(avctx.sar_num, avctx.sar_den)
      \o OverrideArgs(options) \o <<SENTINEL>>

\* lines 60-113: the store and argv as they stand when settings is filled
BuildArgs(avctx, options, libc) ==
    PutAll(EmptyBuilder, ArgList(avctx, options), libc)

\* lines 112-113: what turing_create_encoder is handed
Settings(b) == [argc |-> b.np - 1, argv |-> b.strs, np |-> b.np, s |-> b.s]

NoSettings == [argc |-> 0, argv |-> << >>, np |-> 0, s |-> 0]
NullData == [ptr |-> "null", bytes |-> << >>]

\* HeadersFailed taking only a negative size for a failure
HeadersFailed_Negative(size) == size < 0

\* line 128
HeadersFailed(size) == size <= 0

\* The whole of libturing_encode_init.  b is the store and argv it builds
\* (BuildArgs); env gives the outcomes of the calls it makes: created (the
\* handle turing_create_encoder returns), hdr (the turing_bitstream of
\* turing_encode_headers), malloc_ok (av_malloc).
libturing_encode_init(avctx, ctx, b, env) ==
    LET bit_depth == PixDepth(avctx.cfg.pix_fmt)
        base      == [ret |-> 0, encoder |-> ctx.encoder,
                      extradata |-> avctx.extradata,
                      extradata_size |-> avctx.extradata_size,
                      engine |-> << >>, settings |-> NoSettings,
                      warnings |-> << >>]
        create    == [op |-> "create", h |-> env.created]
    IN  IF ~BitDepthOk(bit_depth)
        THEN [base EXCEPT !.ret = AVERROR_INVALIDDATA,
                          !.engine = << [op |-> "destroy", h |-> ctx.encoder] >>]
        ELSE LET made == [base EXCEPT !.encoder = env.created,
                                      !.settings = Settings(b),
                                      !.warnings = Warnings(ctx.options),
                                      !.engine = <<create>>]
                 hdrs == [op |-> "headers", h |-> env.created]
                 kill == [op |-> "destroy", h |-> env.created]
             IN  IF env.created = NULL
                 THEN [made EXCEPT !.ret = AVERROR_INVALIDDATA]
                 ELSE IF avctx.flags \div AV_CODEC_FLAG_GLOBAL_HEADER % 2 = 0
                 THEN made
                 ELSE IF HeadersFailed(env.hdr.size)
                 THEN [made EXCEPT !.ret = AVERROR_INVALIDDATA,
                                   !.engine = <<create, hdrs, kill>>]
                 ELSE IF ~env.malloc_ok
                 THEN [made EXCEPT !.ret = AVERROR_ENOMEM,
                                   !.extradata_size = env.hdr.size,
                                   !.extradata = NullData,
                                   !.engine = <<create, hdrs, kill>>]
                 ELSE [made EXCEPT !.extradata_size = env.hdr.size,
                                   !.extradata =
                                       [ptr |-> "buf",
                                        bytes |-> SubSeq(env.hdr.p, 1, env.hdr.size)],
                                   !.engine = <<create, hdrs>>]

\* libturing_encode_close destroying whatever the context holds
libturing_encode_close_Unguarded(ctx) ==
    [ret    |-> 0,
     engine |-> << [op |-> "destroy", h |-> ctx.encoder] >>]

\* libturing_encode_close: the engine calls it makes, and its result
libturing_encode_close(ctx) ==
    [ret    |-> 0,
     engine |-> IF ctx.encoder # NULL
                THEN << [op |-> "destroy", h |-> ctx.encoder] >>
                ELSE << >>]

(***************************************************************************)
(* libturing_encode_frame.                                                 *)
(***************************************************************************)
NoPts == 0 - 1

\* TuringPicture with the timestamp rescaled on the way in
TuringPicture_Rescaled(pic) ==
    [image |-> [i \in 1..3 |-> [p |-> pic.data[i], stride |-> pic.linesize[i]]],
     pts   |-> pic.pts + 1]

\* lines 156-164: the turing_picture built from the frame
TuringPicture(pic) ==
    [image |-> [i \in 1..3 |-> [p |-> pic.data[i], stride |-> pic.linesize[i]]],
     pts   |-> pic.pts]

\* ff_alloc_packet(pkt, size): on success the packet is initialised afresh
\* (av_init_packet) with a buffer of size bytes; its pts and dts are
\* overwritten by the caller before they can be seen.
ff_alloc_packet(pkt, size, ok) ==
    IF ok
    THEN [ret |-> 0,
          pkt |-> [pkt EXCEPT !.size = size, !.flags = 0,
                              !.data = [i \in 1..size |-> 0]]]
    ELSE [ret |-> AVERROR_ENOMEM, pkt |-> pkt]

\* SetKey leaving the flags as they are
SetKey_Unset(flags) == flags

\* pkt->flags |= AV_PKT_FLAG_KEY
SetKey(flags) == IF flags % 2 = 1 THEN flags ELSE flags + AV_PKT_FLAG_KEY

\* EncodeResult with the zero-size output taken for a failure
EncodeResult_ZeroIsError(pkt, got_packet, output, alloc_ok) ==
    IF output.size <= 0
    THEN [ret |-> AVERROR_EXTERNAL, pkt |-> pkt, got_packet |-> got_packet]
    ELSE LET a == ff_alloc_packet(pkt, output.size, alloc_ok)
         IN  IF a.ret < 0
             THEN [ret |-> a.ret, pkt |-> a.pkt, got_packet |-> got_packet]
             ELSE [ret |-> 0,
                   pkt |-> [a.pkt EXCEPT
                              !.data = SubSeq(output.p, 1, output.size),
                              !.pts = output.pts,
                              !.dts = output.dts,
                              !.flags = IF output.keyframe
                                        THEN SetKey(a.pkt.flags)
                                        ELSE a.pkt.flags],
                   got_packet |-> 1]

\* EncodeResult reporting a packet for a zero-size output
EncodeResult_ZeroGotPacket(pkt, got_packet, output, alloc_ok) ==
    IF output.size < 0
    THEN [ret |-> AVERROR_EXTERNAL, pkt |-> pkt, got_packet |-> got_packet]
    ELSE LET a == ff_alloc_packet(pkt, output.size, alloc_ok)
         IN  IF a.ret < 0
             THEN [ret |-> a.ret, pkt |-> a.pkt, got_packet |-> got_packet]
             ELSE [ret |-> 0,
                   pkt |-> [a.pkt EXCEPT
                              !.data = SubSeq(output.p, 1, output.size),
                              !.pts = output.pts,
                              !.dts = output.dts,
                              !.flags = IF output.keyframe
                                        THEN SetKey(a.pkt.flags)
                                        ELSE a.pkt.flags],
                   got_packet |-> 1]

\* EncodeResult leaving got_packet alone when it has made the packet
EncodeResult_NoGotPacket(pkt, got_packet, output, alloc_ok) ==
    IF output.size < 0
    THEN [ret |-> AVERROR_EXTERNAL, pkt |-> pkt, got_packet |-> got_packet]
    ELSE IF output.size = 0
    THEN [ret |-> 0, pkt |-> pkt, got_packet |-> got_packet]
    ELSE LET a == ff_alloc_packet(pkt, output.size, alloc_ok)
         IN  IF a.ret < 0
             THEN [ret |-> a.ret, pkt |-> a.pkt, got_packet |-> got_packet]
             ELSE [ret |-> 0,
                   pkt |-> [a.pkt EXCEPT
                              !.data = SubSeq(output.p, 1, output.size),
                              !.pts = output.pts,
                              !.dts = output.dts,
                              !.flags = IF output.keyframe
                                        THEN SetKey(a.pkt.flags)
                                        ELSE a.pkt.flags],
                   got_packet |-> got_packet]

\* lines 171-191: what the call makes of the engine's output.  alloc_ok is
\* the outcome of ff_alloc_packet.
EncodeResult(pkt, got_packet, output, alloc_ok) ==
    IF output.size < 0
    THEN [ret |-> AVERROR_EXTERNAL, pkt |-> pkt, got_packet |-> got_packet]
    ELSE IF output.size = 0
    THEN [ret |-> 0, pkt |-> pkt, got_packet |-> got_packet]
    ELSE LET a == ff_alloc_packet(pkt, output.size, alloc_ok)
         IN  IF a.ret < 0
             THEN [ret |-> a.ret, pkt |-> a.pkt, got_packet |-> got_packet]
             ELSE [ret |-> 0,
                   pkt |-> [a.pkt EXCEPT
                              !.data = SubSeq(output.p, 1, output.size),
                              !.pts = output.pts,
                              !.dts = output.dts,
                              !.flags = IF output.keyframe
                                        THEN SetKey(a.pkt.flags)
                                        ELSE a.pkt.flags],
                   got_packet |-> 1]

(***************************************************************************)
(* The engine, as the adapter's call sites see it: it keeps the pictures   *)
(* it was given and reports each of them once, in an order of its own.     *)
(***************************************************************************)
Bitstream(pts, size) == [i \in 1..size |-> 16 * pts + i]

NoOutput == [size |-> 0, p |-> << >>, pts |-> NoPts, dts |-> NoPts, keyframe |-> FALSE]
Failure == [size |-> 0 - 1, p |-> << >>, pts |-> NoPts, dts |-> NoPts, keyframe |-> FALSE]

Release(buf, nout) ==
    { [out |-> [size |-> size, p |-> Bitstream(f, size), pts |-> f,
                dts |-> nout, keyframe |-> key],
       buffered |-> buf \ {f}, nout |-> nout + 1, failed |-> FALSE] :
         f \in buf, size \in 1..MaxSize, key \in BOOLEAN }

Quiet(buf, nout) ==
    { [out |-> NoOutput, buffered |-> buf, nout |-> nout, failed |-> FALSE] }

Broken(buf, nout) ==
    { [out |-> Failure, buffered |-> buf, nout |-> nout, failed |-> TRUE] }

\* turing_encode_picture(encoder, picture): picture is a turing_picture, or
\* NoPicture for the null pointer of a flush
NoPicture == [image |-> << >>, pts |-> NoPts]

turing_encode_picture(eng, picture) ==
    IF picture # NoPicture
    THEN LET buf == eng.buffered \cup {picture.pts}
         IN  Quiet(buf, eng.nout) \cup Release(buf, eng.nout) \cup Broken(buf, eng.nout)
    ELSE IF eng.buffered # {}
         THEN Release(eng.buffered, eng.nout) \cup Broken(eng.buffered, eng.nout)
         ELSE Quiet(eng.buffered, eng.nout)

\* the engine's record of create and destroy calls
RECURSIVE EngineApply(_, _)
EngineApply(eng, calls) ==
    IF calls = << >> THEN eng
    ELSE LET c == Head(calls)
             e == CASE c.op = "create" /\ c.h # NULL ->
                           [eng EXCEPT !.made = @ \cup {c.h}]
                    [] c.op = "destroy" ->
                           [eng EXCEPT !.destroys = Append(@, c.h)]
                    [] OTHER -> eng
         IN  EngineApply(e, Tail(calls))

(***************************************************************************)
(* Inputs.                                                                 *)
(***************************************************************************)
Videos ==
    { [width |-> 1920, height |-> 1080, tb_num |-> 1001, tb_den |-> 30000,
       ticks_per_frame |-> 1],
      [width |-> 352, height |-> 288, tb_num |-> 1, tb_den |-> 50,
       ticks_per_frame |-> 2] }
\* yuv420p12 is not in turing_csp; init tests the depth itself (line 68)
PixFmts == {"yuv420p", "yuv420p10", "yuv420p12"}
Sars == { <<0, 1>>, <<1, 1>>, <<40, 30>>, <<65537, 1>>, <<1, 200000>>,
          <<65537, 65536>> }
Flags == {0, AV_CODEC_FLAG_GLOBAL_HEADER}

E(k, v) == [key |-> k, value |-> v]
Many(n) == [i \in 1..n |-> E("k" \o ToString(i), "1")]

Dicts ==
    { << >>,
      <<E("input-res", "8x8")>>, <<E("frame-rate", "60")>>, <<E("f", "5")>>,
      <<E("frames", "100")>>, <<E("sar", "2")>>, <<E("bit-depth", "12")>>,
      <<E("internal-bit-depth", "12")>>,
      <<E("preset", "fast")>>, <<E("qp", "26")>>,
      <<E("frames", "100"), E("preset", "fast")>>,
      <<E("qp", "26"), E("bit-depth", "12")>>,
      <<E("qp", Rep("x", 890))>>,
      <<E("preset", "fast"), E("qp", Rep("x", 1100))>>,
      Many(MaxOverrides) }

\* ctx->options: unset, a string av_dict_parse_string rejects, or a dictionary
OptionValues ==
    { [set |-> FALSE, parsed |-> FALSE, dict |-> << >>],
      [set |-> TRUE, parsed |-> FALSE, dict |-> << >>] }
    \cup { [set |-> TRUE, parsed |-> TRUE, dict |-> d] : d \in Dicts }

Headers ==
    { [size |-> 0 - 1, p |-> << >>], [size |-> 0, p |-> << >>],
      [size |-> 2, p |-> <<64, 1>>] }

InitEnvs ==
    [created : {NULL, 1}, hdr : Headers, malloc_ok : BOOLEAN]

Frame(t) == [data |-> <<1, 2, 3>>, linesize |-> <<64, 32, 32>>, pts |-> t]

(***************************************************************************)
(* State.                                                                  *)
(***************************************************************************)
VARIABLES
    ctx,        \* libturingEncodeContext: [encoder]
    avctx,      \* the AVCodecContext fields init publishes
    pkt,        \* the caller's AVPacket
    got_packet, \* *got_packet after the last encode call
    eng,        \* the engine: handles made, destroy calls, pictures held
    pipe,       \* the pipeline: where it is and what it has sent and got
    call        \* the last call: its inputs, its result, the engine calls

vars == <<ctx, avctx, pkt, got_packet, eng, pipe, call>>

Init ==
    /\ ctx = [encoder |-> NULL]
    /\ avctx = [extradata |-> NullData, extradata_size |-> 0]
    /\ pkt = [size |-> 0, data |-> << >>, pts |-> NoPts, dts |-> NoPts, flags |-> 0]
    /\ got_packet = 0
    /\ eng = [made |-> {}, destroys |-> << >>, buffered |-> {}, nout |-> 0,
              failed |-> FALSE, dry |-> FALSE]
    /\ pipe = [phase |-> "new", flushing |-> FALSE, idle |-> 0,
               submitted |-> << >>, emitted |-> << >>, lost |-> 0]
    /\ call = [op |-> "none"]

(***************************************************************************)
(* The pipeline's calls.                                                   *)
(***************************************************************************)
\* avcodec_open2 -> codec->init, with the configuration drawn from the sets
\* given
InitOn(videos, pix_fmts, sars, option_values, libcs) ==
    /\ pipe.phase = "new"
    /\ \E v \in videos, pf \in pix_fmts, sar \in sars, o \in option_values,
          libc \in libcs :
         LET cfg == [width |-> v.width, height |-> v.height,
                     tb_num |-> v.tb_num, tb_den |-> v.tb_den,
                     ticks_per_frame |-> v.ticks_per_frame, pix_fmt |-> pf,
                     sar_num |-> sar[1], sar_den |-> sar[2]]
         IN  \E b \in {BuildArgs(cfg, o, libc)}, fl \in Flags, env \in InitEnvs :
               LET in == [cfg |-> cfg, flags |-> fl,
                          extradata |-> avctx.extradata,
                          extradata_size |-> avctx.extradata_size]
               IN  \E r \in {libturing_encode_init(
                               in, [encoder |-> ctx.encoder, options |-> o], b, env)} :
                     /\ ctx' = [encoder |-> r.encoder]
                     /\ avctx' = [extradata |-> r.extradata,
                                  extradata_size |-> r.extradata_size]
                     /\ eng' = EngineApply(eng, r.engine)
                     /\ pipe' = [pipe EXCEPT
                                   !.phase = IF r.ret = 0 THEN "open" ELSE "failed"]
                     /\ call' = [op |-> "init", avctx |-> in, options |-> o,
                                 ret |-> r.ret, engine |-> r.engine,
                                 settings |-> r.settings, warnings |-> r.warnings,
                                 env |-> env, before |-> avctx]
    /\ UNCHANGED <<pkt, got_packet>>

InitCall == InitOn(Videos, PixFmts, Sars, OptionValues, Libcs)

\* one call of codec->encode2 with frame pic (NoFrame: the null frame).  The
\* caller clears *got_packet before the call.  eng.dry records that the
\* engine reported no output to a flush call, pipe.idle counts the flush
\* calls that returned 0 without a packet.
NoFrame == [data |-> << >>, linesize |-> << >>, pts |-> NoPts]

\* a handle turing_create_encoder returned and nothing has destroyed
Live(h) == h \in eng.made /\ \A i \in 1..Len(eng.destroys) : eng.destroys[i] # h

\* line 166: what turing_encode_picture(ctx->encoder, picture) can report.
\* With a handle that is null or destroyed the call is undefined: any report.
Outcomes(picture) ==
    IF Live(ctx.encoder)
    THEN turing_encode_picture(eng, picture)
    ELSE LET buf == IF picture # NoPicture
                    THEN eng.buffered \cup {picture.pts} ELSE eng.buffered
         IN  Quiet(buf, eng.nout) \cup Release(buf, eng.nout) \cup Broken(buf, eng.nout)

EncodeCall(pic) ==
    LET picture == IF pic # NoFrame THEN TuringPicture(pic) ELSE NoPicture
    IN  \E o \in Outcomes(picture), alloc_ok \in BOOLEAN :
          \E r \in {EncodeResult(pkt, 0, o.out, alloc_ok)} :
              /\ pkt' = r.pkt
              /\ got_packet' = r.got_packet
              /\ eng' = [eng EXCEPT !.buffered = o.buffered, !.nout = o.nout,
                                    !.failed = o.failed,
                                    !.dry = @ \/ (pic = NoFrame /\ o.out.size = 0)]
              /\ pipe' = [pipe EXCEPT
                    !.flushing = (pic = NoFrame),
                    !.idle = IF pic = NoFrame /\ r.ret = 0 /\ r.got_packet = 0
                             THEN @ + 1 ELSE @,
                    !.submitted = IF pic # NoFrame THEN Append(@, pic.pts) ELSE @,
                    !.emitted = IF r.got_packet = 1
                                THEN Append(@, [pts |-> r.pkt.pts, dts |-> r.pkt.dts,
                                                size |-> r.pkt.size])
                                ELSE @,
                    !.lost = IF o.out.size > 0 /\ ~alloc_ok THEN @ + 1 ELSE @]
              /\ call' = [op |-> "encode", pic |-> pic, picture |-> picture,
                          handle |-> ctx.encoder, output |-> o.out,
                          alloc_ok |-> alloc_ok, pkt_before |-> pkt,
                          ret |-> r.ret, engine |-> << [op |-> "encode", h |-> ctx.encoder] >>]
              /\ UNCHANGED <<ctx, avctx>>

LastPts == IF pipe.submitted = << >> THEN NoPts
           ELSE pipe.submitted[Len(pipe.submitted)]

EncodePicture ==
    /\ pipe.phase = "open"
    /\ ~pipe.flushing
    /\ ~eng.failed
    /\ Len(pipe.submitted) < MaxPics
    /\ \E t \in (LastPts + 1)..MaxPts : EncodeCall(Frame(t))

EncodeFlush ==
    /\ pipe.phase = "open"
    /\ ~eng.failed
    /\ pipe.idle < MaxIdle
    /\ EncodeCall(NoFrame)

\* avcodec_close -> codec->close
CloseCall ==
    /\ pipe.phase # "closed"
    /\ \E r \in {libturing_encode_close([encoder |-> ctx.encoder])} :
           /\ eng' = EngineApply(eng, r.engine)
           /\ call' = [op |-> "close", phase |-> pipe.phase, ret |-> r.ret,
                       engine |-> r.engine]
    /\ pipe' = [pipe EXCEPT !.phase = "closed"]
    /\ UNCHANGED <<ctx, avctx, pkt, got_packet>>

Next == InitCall \/ EncodePicture \/ EncodeFlush \/ CloseCall

Spec == Init /\ [][Next]_vars

(***************************************************************************)
(* Properties.                                                             *)
(***************************************************************************)
SeqRange(s) == {s[i] : i \in 1..Len(s)}
Count(s, x) == Cardinality({i \in 1..Len(s) : s[i] = x})
StartsWith(str, pre) == Len(str) >= Len(pre) /\ Prefix(str, Len(pre)) = pre
EngineOps(calls) == {calls[i].op : i \in 1..Len(calls)}

IsEncode == call.op = "encode"
IsInit == call.op = "init"
IsClose == call.op = "close"

\* C1 (as stated): the result of an encode call is decided by the engine's
\* bitstream size alone: size < 0 is AVERROR_EXTERNAL without a packet,
\* size = 0 is success without a packet, size > 0 is success with one packet
\* of that size.
C1_SizeAlone ==
    IsEncode =>
      /\ call.output.size < 0 => call.ret = AVERROR_EXTERNAL /\ got_packet = 0
      /\ call.output.size = 0 => call.ret = 0 /\ got_packet = 0
      /\ call.output.size > 0 =>
            call.ret = 0 /\ got_packet = 1 /\ pkt.size = call.output.size

\* C1 (amended): as C1, except that for size > 0 the packet is produced only
\* if ff_alloc_packet succeeds; if it fails the call returns its error, sets
\* no got_packet and leaves the packet as it was.
C1_SizeAndAlloc ==
    IsEncode =>
      /\ call.output.size < 0 =>
            call.ret = AVERROR_EXTERNAL /\ got_packet = 0 /\ pkt = call.pkt_before
      /\ call.output.size = 0 =>
            call.ret = 0 /\ got_packet = 0 /\ pkt = call.pkt_before
      /\ call.output.size > 0 /\ call.alloc_ok =>
            /\ call.ret = 0 /\ got_packet = 1
            /\ pkt.size = call.output.size
            /\ Len(pkt.data) = call.output.size
      /\ call.output.size > 0 /\ ~call.alloc_ok =>
            call.ret < 0 /\ got_packet = 0 /\ pkt = call.pkt_before

\* a flush call on which the engine released a frame and the packet was made
C1_Witness ==
    /\ IsEncode /\ call.pic = NoFrame
    /\ call.output.size > 0 /\ call.alloc_ok /\ got_packet = 1

\* C2: the adapter does not transform timestamps: the engine is handed the
\* frame's pts, a packet carries the pts and dts the engine reported, and so
\* every packet's pts is one that was submitted in the same or an earlier call.
C2_Timestamps ==
    /\ IsEncode /\ call.pic # NoFrame => call.picture.pts = call.pic.pts
    /\ IsEncode /\ got_packet = 1 =>
          pkt.pts = call.output.pts /\ pkt.dts = call.output.dts
    /\ \A i \in 1..Len(pipe.emitted) :
          pipe.emitted[i].pts \in SeqRange(pipe.submitted)

\* a packet for an earlier picture comes out of a later picture's call
C2_Witness ==
    /\ IsEncode /\ call.pic # NoFrame /\ got_packet = 1
    /\ pkt.pts # call.pic.pts
    /\ pkt.pts \in SeqRange(pipe.submitted)

\* C3: every engine instance turing_create_encoder returned is destroyed
\* exactly once: never twice, and once the session is closed.
C3_DestroyedOnce ==
    \A h \in eng.made :
       /\ Count(eng.destroys, h) <= 1
       /\ pipe.phase = "closed" => Count(eng.destroys, h) = 1

\* C4: for bit depth 8 or 10 the argument list holds --bit-depth=<n> and
\* --internal-bit-depth=<n> with n the input bit depth (and no other value);
\* for any other depth init fails and turing_create_encoder is not called.
C4_BitDepth ==
    IsInit =>
      LET d    == PixDepth(call.avctx.cfg.pix_fmt)
          args == call.settings.argv
          Has(a) == \E i \in 1..Len(args) : args[i].text = a /\ args[i].kind = "whole"
          Only(pre, a) == \A i \in 1..Len(args) :
                             StartsWith(args[i].text, pre) => args[i].text = a
      IN  IF d \in {8, 10}
          THEN /\ "create" \in EngineOps(call.engine)
               /\ Has("--bit-depth=" \o ToString(d))
               /\ Has("--internal-bit-depth=" \o ToString(d))
               /\ Only("--bit-depth=", "--bit-depth=" \o ToString(d))
               /\ Only("--internal-bit-depth=", "--internal-bit-depth=" \o ToString(d))
          ELSE /\ call.ret < 0
               /\ "create" \notin EngineOps(call.engine)
               /\ eng.made = {} /\ ctx.encoder = NULL

\* init with 10-bit input reached engine construction
C4_Witness ==
    /\ IsInit /\ PixDepth(call.avctx.cfg.pix_fmt) = 10
    /\ "create" \in EngineOps(call.engine)
    /\ \E i \in 1..Len(call.settings.argv) :
          call.settings.argv[i].text = "--internal-bit-depth=10"

RECURSIVE Needed(_)
\* the bytes a list of strings takes, each with its terminating NUL
Needed(strs) == IF strs = << >> THEN 0 ELSE Len(Head(strs)) + 1 + Needed(Tail(strs))

Depth == PixDepth(call.avctx.cfg.pix_fmt)
Created == "create" \in EngineOps(call.engine)
HasSar == SarPresent(call.avctx.cfg.sar_num, call.avctx.cfg.sar_den)
Argv == call.settings.argv

\* the arguments between the fixed ones (and --sar) and the sentinel
OverrideSegment == SubSeq(Argv, 7 + (IF HasSar THEN 1 ELSE 0), Len(Argv) - 1)

\* C5: every override whose key is reserved yields no argument and a warning
\* while init goes on; every other override yields exactly one argument
\* --<key>=<value>, key and value unchanged.
C5_Overrides ==
    IsInit /\ call.options.set /\ call.options.parsed /\ Depth \in {8, 10} =>
      LET dict == call.options.dict
          seg  == OverrideSegment
          N(e) == Cardinality({i \in 1..Len(seg) :
                     seg[i].text = OverrideArg(e) /\ seg[i].kind = "whole"})
      IN  /\ Created
          /\ call.warnings = SelectSeq(dict, IsIllegal)
          /\ Len(seg) = Len(SelectSeq(dict, IsLegal))
          /\ \A i \in 1..Len(dict) :
                N(dict[i]) = IF illegal_option(dict[i].key) THEN 0 ELSE 1

\* C6: when the formatted arguments do not fit in the 1024-byte store, init
\* fails before turing_create_encoder; no write position passes the end of
\* the store and no argument is truncated.
C6_StoreChecked ==
    IsInit /\ Depth \in {8, 10} =>
      /\ Needed(ArgList(call.avctx.cfg, call.options)) > OPTIONS_SIZE =>
            call.ret < 0 /\ ~Created
      /\ Created =>
            /\ call.settings.s <= OPTIONS_SIZE
            /\ \A i \in 1..Len(Argv) :
                  Argv[i].kind = "whole" /\ Argv[i].at < OPTIONS_SIZE

SarTexts == {i \in 1..Len(Argv) : StartsWith(Argv[i].text, "--sar=")}
Lowest(num, den) == [num |-> num \div av_gcd(num, den), den |-> den \div av_gcd(num, den)]
SarText(r) == "--sar=" \o ToString(r.num) \o ":" \o ToString(r.den)

\* C7 (as stated): --sar=<num>:<den> is in the list iff the configured ratio
\* has num > 0 and den > 0; then it is there once and is the configured
\* ratio in lowest terms, both components at most 65535.
C7_SarExact ==
    IsInit /\ Created =>
      LET n == call.avctx.cfg.sar_num
          d == call.avctx.cfg.sar_den
      IN  IF n > 0 /\ d > 0
          THEN /\ Cardinality(SarTexts) = 1
               /\ \A i \in SarTexts : Argv[i].text = SarText(Lowest(n, d))
               /\ Lowest(n, d).num <= SAR_MAX /\ Lowest(n, d).den <= SAR_MAX
          ELSE SarTexts = {}

\* C7 (amended): --sar is in the list iff num > 0 and den > 0, and then
\* once; it is the configured ratio in lowest terms when both components of
\* that are at most 65535, and otherwise another ratio in lowest terms with
\* both components in 0..65535.
C7_SarBounded ==
    IsInit /\ Created =>
      LET n == call.avctx.cfg.sar_num
          d == call.avctx.cfg.sar_den
          r == av_reduce(n, d, SAR_MAX)
      IN  IF n > 0 /\ d > 0
          THEN /\ Cardinality(SarTexts) = 1
               /\ \A i \in SarTexts :
                     Argv[i].text = SarText(r) /\ Argv[i].kind = "whole"
               /\ r.num \in 0..SAR_MAX /\ r.den \in 0..SAR_MAX
               /\ av_gcd(r.num, r.den) = 1
               /\ (Lowest(n, d).num <= SAR_MAX /\ Lowest(n, d).den <= SAR_MAX)
                     => r = Lowest(n, d)
          ELSE SarTexts = {}

\* a ratio that does not fit was replaced by one that does
C7_Witness ==
    /\ IsInit /\ Created
    /\ call.avctx.cfg.sar_num = 65537 /\ call.avctx.cfg.sar_den = 1
    /\ \E i \in 1..Len(Argv) : Argv[i].text = "--sar=65535:1"

(***************************************************************************)
(* Draining.  The pipeline of SpecDrain does not give up a session it has  *)
(* opened: it closes only after the engine failed or reported no further   *)
(* output to a flush call, and keeps calling until then.                   *)
(***************************************************************************)
Drained == pipe.phase = "open" /\ pipe.flushing /\ pipe.idle >= 1

CloseDrain ==
    /\ \/ pipe.phase = "failed"
       \/ pipe.phase = "open" /\ (eng.failed \/ pipe.idle >= 1)
    /\ CloseCall

NextDrain == InitCall \/ EncodePicture \/ EncodeFlush \/ CloseDrain

SpecDrain == Init /\ [][NextDrain]_vars /\ WF_vars(EncodeFlush)

PtsOnce(t) == Count([i \in 1..Len(pipe.emitted) |-> pipe.emitted[i].pts], t) = 1

\* C8 (as stated): when a flush call reports success without a packet, as
\* many packets have been produced as pictures were submitted, and each
\* submitted pts is on exactly one of them.
C8_AllDelivered ==
    Drained =>
      /\ Len(pipe.emitted) = Len(pipe.submitted)
      /\ \A t \in SeqRange(pipe.submitted) : PtsOnce(t)

\* C8 (amended): flushing goes on until a flush call reports success without
\* a packet (or the engine fails); each call yields zero or one packet; by
\* then the packets produced and the outputs lost to a failed
\* ff_alloc_packet add up to the pictures submitted, no pts is on two
\* packets, and with no such loss each submitted pts is on exactly one.
C8_Drain ==
    /\ [](got_packet \in {0, 1})
    /\ [](Drained =>
            /\ Len(pipe.emitted) + pipe.lost = Len(pipe.submitted)
            /\ \A i, j \in 1..Len(pipe.emitted) :
                  pipe.emitted[i].pts = pipe.emitted[j].pts => i = j
            /\ \A i \in 1..Len(pipe.emitted) :
                  pipe.emitted[i].pts \in SeqRange(pipe.submitted)
            /\ pipe.lost = 0 => \A t \in SeqRange(pipe.submitted) : PtsOnce(t))
    /\ (pipe.phase = "open" ~> (Drained \/ eng.failed))

\* all the pictures of a full run came out, the last ones on flush calls
C8_Witness ==
    /\ Drained /\ IsEncode /\ call.ret = 0 /\ got_packet = 0
    /\ Len(pipe.submitted) = MaxPics /\ Len(pipe.emitted) = MaxPics

\* C9: once a flush call has reported no further output, every further flush
\* call returns success without a packet.
C9_DrainedStaysQuiet ==
    [][eng.dry /\ call'.op = "encode" => call'.ret = 0 /\ got_packet' = 0]_vars

\* a second flush call after the engine ran dry
C9_Witness ==
    /\ IsEncode /\ call.pic = NoFrame /\ eng.dry /\ pipe.idle >= 2
    /\ call.ret = 0 /\ got_packet = 0

\* C10: close on a session that never had an engine instance (init not run,
\* or failed before or at turing_create_encoder) calls nothing in the engine
\* and returns 0.
C10_CloseNoop ==
    IsClose /\ eng.made = {} => call.engine = << >> /\ call.ret = 0

\* close after init failed on the bit depth
C10_Witness ==
    /\ IsClose /\ call.phase = "failed" /\ eng.made = {}
    /\ eng.destroys = <<NULL>>

(***************************************************************************)
(* Any order.  The pipeline of SpecAnyOrder keeps no discipline: it calls  *)
(* encode before init, after an init that failed and after close.  Nothing *)
(* in libturing_encode_frame looks at the state of the session.            *)
(***************************************************************************)
InitAny ==
    InitOn({[width |-> 352, height |-> 288, tb_num |-> 1, tb_den |-> 50,
             ticks_per_frame |-> 2]},
           PixFmts, {<<1, 1>>},
           {[set |-> FALSE, parsed |-> FALSE, dict |-> << >>]}, {"unbounded"})

EncodePictureAny ==
    /\ Len(pipe.submitted) < MaxPics
    /\ \E t \in (LastPts + 1)..MaxPts : EncodeCall(Frame(t))

EncodeFlushAny ==
    /\ pipe.idle < MaxIdle
    /\ EncodeCall(NoFrame)

NextAnyOrder == InitAny \/ EncodePictureAny \/ EncodeFlushAny \/ CloseCall

SpecAnyOrder == Init /\ [][NextAnyOrder]_vars

\* C11: whatever the order of init, encode and close calls, the session is
\* open only with an instance turing_create_encoder returned, and
\* turing_encode_picture and turing_encode_headers are only ever called with
\* a handle that turing_create_encoder returned and nothing has destroyed.
C11_LiveHandle ==
    /\ pipe.phase = "open" => ctx.encoder # NULL /\ ctx.encoder \in eng.made
    /\ IsEncode => Live(call.handle)
    /\ IsInit =>
         \A i \in 1..Len(call.engine) :
            call.engine[i].op = "headers" =>
               /\ call.engine[i].h # NULL
               /\ \E j \in 1..(i - 1) :
                     call.engine[j] = [op |-> "create", h |-> call.engine[i].h]
               /\ \A j \in 1..(i - 1) :
                     call.engine[j] # [op |-> "destroy", h |-> call.engine[i].h]

GlobalHeader == call.avctx.flags \div AV_CODEC_FLAG_GLOBAL_HEADER % 2 = 1
Constructed == Created /\ call.env.created # NULL
HeadersCalls == {i \in 1..Len(call.engine) : call.engine[i].op = "headers"}

\* C12: init calls turing_encode_headers iff the engine was constructed and
\* the global-header flag is set (and then once, on that instance); a size
\* <= 0 makes init fail with the instance destroyed and the extradata fields
\* untouched; a size > 0 with av_malloc succeeding makes init succeed with
\* extradata_size that size and extradata exactly those bytes.
C12_Headers ==
    IsInit =>
      LET hdr == call.env.hdr IN
      /\ HeadersCalls # {} <=> Constructed /\ GlobalHeader
      /\ Cardinality(HeadersCalls) <= 1
      /\ \A i \in HeadersCalls : call.engine[i].h = call.env.created
      /\ HeadersCalls # {} /\ hdr.size <= 0 =>
            /\ call.ret < 0
            /\ call.engine[Len(call.engine)] =
                  [op |-> "destroy", h |-> call.env.created]
            /\ avctx = call.before
      /\ HeadersCalls # {} /\ hdr.size > 0 /\ call.env.malloc_ok =>
            /\ call.ret = 0 /\ pipe.phase = "open"
            /\ avctx.extradata_size = hdr.size
            /\ avctx.extradata.ptr = "buf"
            /\ avctx.extradata.bytes = SubSeq(hdr.p, 1, hdr.size)
            /\ "destroy" \notin EngineOps(call.engine)

\* init published the two header bytes the engine reported
C12_Witness ==
    /\ IsInit /\ HeadersCalls # {} /\ call.ret = 0
    /\ call.env.hdr.size = 2 /\ avctx.extradata_size = 2
    /\ avctx.extradata.bytes = <<64, 1>>

Wanted == ArgList(call.avctx.cfg, call.options)
Starting(pre) == {i \in 1..Len(Argv) : StartsWith(Argv[i].text, pre)}

\* C13: the vector handed to turing_create_encoder is: turing, then
\* --input-res, --frame-rate, --frames=0, --bit-depth, --internal-bit-depth
\* once each in that order, then --sar at most once, then the accepted
\* overrides, then dummy-input-filename as the last counted entry; argc is
\* the number of strings formatted, and entry i is the start of the i-th
\* string, inside the store.
C13_ArgvShape ==
    IsInit /\ Created =>
      LET n == call.settings.argc IN
      /\ n = Len(Wanted) /\ n = Len(Argv)
      /\ Argv[1].text = "turing"
      /\ Starting("--input-res=") = {2}
      /\ Starting("--frame-rate=") = {3}
      /\ Starting("--frames=") = {4} /\ Argv[4].text = "--frames=0"
      /\ Starting("--bit-depth=") = {5}
      /\ Starting("--internal-bit-depth=") = {6}
      /\ Starting("--sar=") \subseteq {7}
      /\ [i \in 1..Len(OverrideSegment) |-> OverrideSegment[i].text]
            = OverrideArgs(call.options)
      /\ Argv[n].text = SENTINEL
      /\ \A i \in 1..n :
            /\ Argv[i].at = Needed(SubSeq(Wanted, 1, i - 1))
            /\ Argv[i].at < OPTIONS_SIZE
            /\ Argv[i].text = Wanted[i]

\* C14: when init rejects the bit depth it has called nothing in the engine
\* (no create, no headers, no destroy), and every call of
\* turing_destroy_encoder, from init or from close, is on a handle that
\* turing_create_encoder returned.
C14_NoEngineOnConfigError ==
    /\ IsInit /\ ~BitDepthOk(Depth) => call.engine = << >>
    /\ \A i \in 1..Len(eng.destroys) :
          eng.destroys[i] # NULL /\ eng.destroys[i] \in eng.made

IsKey(flags) == flags \div AV_PKT_FLAG_KEY % 2 = 1

C16_ArgvFits ==
    IsInit /\ Created => call.settings.np <= ARGV_SLOTS

\* C17: after init has returned, with any result, a positive extradata_size
\* comes with a non-null extradata of exactly that many header bytes; a
\* failed init leaves no positive extradata_size beside a null extradata.
C17_ExtradataConsistent ==
    IsInit /\ avctx.extradata_size > 0 =>
      /\ avctx.extradata.ptr # "null"
      /\ Len(avctx.extradata.bytes) = avctx.extradata_size
      /\ avctx.extradata.bytes = SubSeq(call.env.hdr.p, 1, call.env.hdr.size)

=============================================================================
